---- MODULE Spec2Model ----
(***************************************************************************)
(* A model of the CRAM slice builder of noodles                            *)
(* (noodles-cram/src/container/slice/builder.rs), of the Block value it    *)
(* produces (noodles-cram/src/container/block.rs) and of the GZI index     *)
(* reader (noodles-bgzf/src/gzi/reader.rs).  Each has its own              *)
(* specification; the variables of the others stay at their idle values.   *)
(*                                                                         *)
(* Rust's Option<T> is modelled as a sequence of length 0 (None) or 1      *)
(* (Some(x)), so that Option<Option<i32>> keeps its two levels.            *)
(***************************************************************************)
EXTENDS Integers, Sequences, FiniteSets, TLC

\* ---------------------------------------------------------------- bounds
\* The largest number of records a builder buffers in the model.
MaxRecords == 2
\* Alignment positions are 1..MaxPos (1-based, end >= start).
MaxPos == 2
\* The number of fixed data-series slots (DataSeries::LEN, reduced).
DataSeriesLen == 1

\* The longest payload handed to a codec.
MaxPayloadLen == 2
\* The most entries written to a GZI stream.
MaxEntries == 2
\* The most insert calls made on a VCF header and its builder.
MaxInserts == 3
\* The most fields of a VCF header FILTER record.
MaxFields == 3
\* The most tab-separated texts of a SAM record line.
MaxLineFields == 13

\* ------------------------------------------------------ program constants
CORE_DATA_BLOCK_CONTENT_ID == 0
EOF_CRC32 == 1258382318
MAX_FIELDS == 12
I32Max == 2147483647
Md5Len == 16

\* ------------------------------------------------------------ Option<T>
None == << >>
Some(x) == << x >>
is_none(o) == Len(o) = 0
is_some(o) == Len(o) = 1
unwrap(o) == o[1]

min(a, b) == IF b < a THEN b ELSE a
max(a, b) == IF b > a THEN b ELSE a

\* --------------------------------------------------------------- inputs
\* The one tag-stream identity a compression header may declare.
TagId == DataSeriesLen + 1
TagIds == {TagId}
\* A compression header: the tag keys it declares, and the streams its
\* encodings route to an external block (the others go to the core stream).
CompressionHeaders ==
    {h \in [tag_keys : SUBSET TagIds, external : SUBSET ({1} \cup TagIds)] :
        h.external \cap TagIds \subseteq h.tag_keys}
\* Records name reference sequence 0 or 1, or none (-1).
ReferenceIds == {-1, 0, 1}
Positions == 1..MaxPos

Records ==
    {r \in [reference_id : ReferenceIds, alignment_start : Positions,
            alignment_end : Positions] :
        r.alignment_end >= r.alignment_start}

\* Byte i (1-based) of reference sequence k (0-based).
RefByte(k, i) == (16 * k + i) % 256
\* n reference sequences of l bases each.
ReferenceSequences(n, l) == [k \in 1..n |-> [i \in 1..l |-> RefByte(k - 1, i)]]
\* The reference_sequences arguments: sequence 1 absent, both present and
\* long enough for every position, both present and one base short.
ReferenceSequenceLists ==
    {ReferenceSequences(1, MaxPos), ReferenceSequences(2, MaxPos),
     ReferenceSequences(2, MaxPos - 1)}

\* All iteration orders of a key set.
Permutations_(S) ==
    {f \in [1..Cardinality(S) -> S] : \A i, j \in 1..Cardinality(S) : f[i] = f[j] => i = j}

\* The slice builder: its two fields, whether build has consumed it, and
\* the latest call with its arguments and result.
VARIABLES records, reference_sequence_id, pc, last
\* A Block (and a second one to compare it with) and the latest call on it.
VARIABLES block, twin, bout
\* The GZI reader: the unread bytes of inner, how the stream was made, and
\* the result of read_index.
VARIABLES inner, gzi_in, gzi_out
\* The VCF header under construction: whether it is still a Builder or a
\* built Header, its other_records, the insert calls made so far, and the
\* result of the latest get.
VARIABLES header_pc, other_records, inserted, got
\* A text handed to a parser and the parser's result: the fields of a VCF
\* header FILTER record, and a SAM record line.
VARIABLES fields, map_out, line, record_out
builder_vars == << records, reference_sequence_id, pc, last >>
block_vars == << block, twin, bout >>
gzi_vars == << inner, gzi_in, gzi_out >>
vcf_vars == << header_pc, other_records, inserted, got >>
parse_vars == << fields, map_out, line, record_out >>
vars == << records, reference_sequence_id, pc, last, block, twin, bout, inner, gzi_in, gzi_out, header_pc, other_records, inserted, got, fields, map_out, line, record_out >>

\* No Block has been made.
BlockIdle == block = None /\ twin = None /\ bout = None
\* No GZI reader has been made.
GziIdle == inner = None /\ gzi_in = None /\ gzi_out = None
\* No VCF header has been made.
VcfIdle == header_pc = "idle" /\ other_records = << >> /\ inserted = << >> /\ got = None
\* No text has been handed to a parser.
ParseIdle == fields = None /\ map_out = None /\ line = None /\ record_out = None

\* ------------------------------------------------------------- add_record
\* bam::record::ReferenceSequenceId::from(i32): a negative id is "none".
ReferenceSequenceIdFrom(n) == IF n < 0 THEN None ELSE Some(n)

AddOk(recs, rsid, record) ==
    [records |-> Append(recs, record), reference_sequence_id |-> rsid,
     status |-> "Ok", record |-> Some(record), error |-> ""]
\* A rejection that has already buffered the record.
AddErr_buffers(recs, rsid, record) ==
    [records |-> Append(recs, record), reference_sequence_id |-> rsid,
     status |-> "Err", record |-> Some(record), error |-> "ReferenceSequenceIdMismatch"]
\* A rejection that forgets the fixed identity.
AddErr_clears(recs, rsid, record) ==
    [records |-> recs, reference_sequence_id |-> None,
     status |-> "Err", record |-> Some(record), error |-> "ReferenceSequenceIdMismatch"]
AddErr(recs, rsid, record) ==
    [records |-> recs, reference_sequence_id |-> rsid,
     status |-> "Err", record |-> Some(record), error |-> "ReferenceSequenceIdMismatch"]

\* add_record without the check of a mapped record against an unmapped slice.
add_record_unmapped_accepts(recs, fixed, record) ==
    LET record_reference_sequence_id == ReferenceSequenceIdFrom(record.reference_id)
        rsid == IF is_none(fixed) THEN Some(record_reference_sequence_id) ELSE fixed
        slice_id == unwrap(rsid)
    IN  IF is_some(slice_id)
        THEN IF is_some(record_reference_sequence_id)
             THEN IF unwrap(slice_id) = unwrap(record_reference_sequence_id)
                  THEN AddOk(recs, rsid, record)
                  ELSE AddErr(recs, rsid, record)
             ELSE AddErr(recs, rsid, record)
        ELSE AddOk(recs, rsid, record)

add_record(recs, fixed, record) ==
    LET record_reference_sequence_id == ReferenceSequenceIdFrom(record.reference_id)
        rsid == IF is_none(fixed) THEN Some(record_reference_sequence_id) ELSE fixed
        slice_id == unwrap(rsid)
    IN  IF is_some(slice_id)
        THEN IF is_some(record_reference_sequence_id)
             THEN IF unwrap(slice_id) = unwrap(record_reference_sequence_id)
                  THEN AddOk(recs, rsid, record)
                  ELSE AddErr(recs, rsid, record)
             ELSE AddErr(recs, rsid, record)
        ELSE IF is_some(record_reference_sequence_id)
             THEN AddErr(recs, rsid, record)
             ELSE AddOk(recs, rsid, record)

is_empty == Len(records) = 0

NoCall ==
    [op |-> "new", arg |-> None, status |-> "Ok", record |-> None, error |-> "",
     slice |-> None, routed |-> << >>, before |-> << >>, before_id |-> None,
     reference_sequences |-> << >>,
     compression_header |-> [tag_keys |-> {}, external |-> {}], fail_at |-> 0]

Init ==
    /\ records = << >>
    /\ reference_sequence_id = None
    /\ pc = "open"
    /\ last = NoCall
    /\ BlockIdle
    /\ GziIdle
    /\ VcfIdle
    /\ ParseIdle

AddRecord(record) ==
    /\ pc = "open"
    /\ LET r == add_record(records, reference_sequence_id, record)
       IN  /\ Len(r.records) <= MaxRecords
           /\ records' = r.records
           /\ reference_sequence_id' = r.reference_sequence_id
           /\ last' = [NoCall EXCEPT !.op = "add_record", !.arg = Some(record),
                                     !.status = r.status,
                                     !.record = r.record, !.error = r.error,
                                     !.before = records,
                                     !.before_id = reference_sequence_id]
    /\ UNCHANGED << pc, block_vars, gzi_vars, vcf_vars, parse_vars >>

\* ------------------------------------------------------------------ Block
\* Block::new: the six fields, stored as given.
Block_new(compression_method, content_type, content_id, uncompressed_len, data, crc32) ==
    [compression_method |-> compression_method, content_type |-> content_type,
     content_id |-> content_id, uncompressed_len |-> uncompressed_len,
     data |-> data, crc32 |-> crc32]

\* ------------------------------------------------------------------ build
\* compression_header.tag_encoding_map().keys()
tag_encoding_map_keys(compression_header) == compression_header.tag_keys

\* The keys of external_data_writers after the two insert loops.
external_data_writer_keys(compression_header) ==
    (1..DataSeriesLen) \cup tag_encoding_map_keys(compression_header)

\* HashMap::new followed by the two insert loops: one empty buffer per
\* data-series slot 1..DataSeries::LEN and per declared tag key.
external_data_writers_new(compression_header) ==
    [id \in external_data_writer_keys(compression_header) |-> << >>]

\* writer::record::Writer::write_record: the record's fields go to the
\* core sink and to the external sinks the compression header's encodings
\* name.
write_record(compression_header, st, record) ==
    [st EXCEPT !.core = Append(@, record.alignment_start),
               !.writers = [id \in DOMAIN @ |->
                              IF id \in compression_header.external
                              THEN Append(@[id], record.alignment_end)
                              ELSE @[id]]]

\* The bounds taken from the latest record only.
update_alignment_bounds_latest(st, record) ==
    [st EXCEPT !.slice_alignment_start = record.alignment_start,
               !.slice_alignment_end = record.alignment_end]

\* The running bounds of the slice, updated with one record.
update_alignment_bounds(st, record) ==
    [st EXCEPT !.slice_alignment_start = min(@, record.alignment_start),
               !.slice_alignment_end = max(@, record.alignment_end)]

\* The loop feeding every record to the router twice.
RECURSIVE write_records_twice(_, _, _, _, _)
write_records_twice(compression_header, recs, i, fail_at, st) ==
    IF i > Len(recs) THEN st
    ELSE LET record == recs[i]
             st1 == [update_alignment_bounds(st, record) EXCEPT
                       !.routed = Append(Append(@, record), record)]
         IN  IF i = fail_at THEN [st1 EXCEPT !.err = TRUE]
             ELSE write_records_twice(compression_header, recs, i + 1, fail_at,
                                      write_record(compression_header, st1, record))

\* The loop going on to the later records after the router has failed.
RECURSIVE write_records_continues(_, _, _, _, _)
write_records_continues(compression_header, recs, i, fail_at, st) ==
    IF i > Len(recs) THEN st
    ELSE LET record == recs[i]
             st1 == [update_alignment_bounds(st, record) EXCEPT
                       !.routed = Append(@, record)]
         IN  write_records_continues(compression_header, recs, i + 1, fail_at,
                 IF i = fail_at THEN [st1 EXCEPT !.err = TRUE]
                 ELSE write_record(compression_header, st1, record))

\* The loop over the buffered records; the router fails at record fail_at
\* (0: it never fails), and the ? operator leaves the loop there.
RECURSIVE write_records(_, _, _, _, _)
write_records(compression_header, recs, i, fail_at, st) ==
    IF i > Len(recs) THEN st
    ELSE LET record == recs[i]
             st1 == [update_alignment_bounds(st, record) EXCEPT
                       !.routed = Append(@, record)]
         IN  IF i = fail_at THEN [st1 EXCEPT !.err = TRUE]
             ELSE write_records(compression_header, recs, i + 1, fail_at,
                                write_record(compression_header, st1, record))

\* The external blocks made like the core block.
RECURSIVE external_blocks_of_as_core(_, _)
external_blocks_of_as_core(order, writers) ==
    IF order = << >> THEN << >>
    ELSE LET buf == writers[Head(order)]
             rest == external_blocks_of_as_core(Tail(order), writers)
         IN  IF buf = << >> THEN rest
             ELSE << Block_new("None", "CoreData", CORE_DATA_BLOCK_CONTENT_ID, Len(buf), buf, 0) >>
                  \o rest

\* The external blocks, in the map's iteration order, empty buffers dropped.
RECURSIVE external_blocks_of(_, _)
external_blocks_of(order, writers) ==
    IF order = << >> THEN << >>
    ELSE LET block_content_id == Head(order)
             buf == writers[block_content_id]
             rest == external_blocks_of(Tail(order), writers)
         IN  IF buf = << >> THEN rest
             ELSE << Block_new("None", "ExternalData", block_content_id, Len(buf), buf, 0) >>
                  \o rest

\* block_content_ids: the core id, then every key of the map in its
\* iteration order.
block_content_ids_of(order, writers) == << CORE_DATA_BLOCK_CONTENT_ID >> \o order

\* The digest of a byte string (an uninterpreted, injective function).
Md5(bytes) == << "Md5", bytes >>
\* [0; 16]
ZeroMd5 == [i \in 1..Md5Len |-> 0]

\* x as usize: a negative i32 wraps to a value above every slice length
\* (I32Max stands for it).
AsUsize(x) == IF x < 0 THEN I32Max ELSE x
\* &seq[start..=end] with 0-based indices; None stands for the panic.
IndexRangeInclusive(seq, start, end) ==
    IF end + 1 > Len(seq) \/ start > end + 1 THEN None
    ELSE Some(SubSeq(seq, start + 1, end + 1))
\* slice.get(i) with a 0-based index.
SliceGet(seq, i) == IF i + 1 <= Len(seq) THEN Some(seq[i + 1]) ELSE None

BuildPanic(msg) == [status |-> "Panic", error |-> msg, slice |-> None, routed |-> << >>]
BuildErr(kind, routed) == [status |-> "Err", error |-> kind, slice |-> None, routed |-> routed]

\* The checksum over the range taken one base too far to the right.
reference_md5_of_shifted(slice_id, reference_sequences, slice_alignment_start, slice_alignment_end) ==
    IF is_some(slice_id)
    THEN LET reference_sequence == SliceGet(reference_sequences, AsUsize(unwrap(slice_id)))
             start == AsUsize(slice_alignment_start)
             end == AsUsize(slice_alignment_end)
         IN  IF is_none(reference_sequence) THEN [status |-> "Err", md5 |-> << >>]
             ELSE LET bytes == IndexRangeInclusive(unwrap(reference_sequence), start, end)
                  IN  IF is_none(bytes) THEN [status |-> "Panic", md5 |-> << >>]
                      ELSE [status |-> "Ok", md5 |-> Md5(unwrap(bytes))]
    ELSE [status |-> "Ok", md5 |-> ZeroMd5]

\* The checksum computed for an unmapped slice too, over reference sequence 0.
reference_md5_of_unmapped_hashed(slice_id, reference_sequences, slice_alignment_start, slice_alignment_end) ==
    LET reference_sequence ==
            SliceGet(reference_sequences,
                     IF is_some(slice_id) THEN AsUsize(unwrap(slice_id)) ELSE 0)
        start == AsUsize(slice_alignment_start - 1)
        end == AsUsize(slice_alignment_end - 1)
    IN  IF is_none(reference_sequence) THEN [status |-> "Err", md5 |-> << >>]
        ELSE LET bytes == IndexRangeInclusive(unwrap(reference_sequence), start, end)
             IN  IF is_none(bytes) THEN [status |-> "Panic", md5 |-> << >>]
                 ELSE [status |-> "Ok", md5 |-> Md5(unwrap(bytes))]

\* A missing reference sequence taken as "no checksum" instead of an error.
reference_md5_of_missing_is_zero(slice_id, reference_sequences, slice_alignment_start, slice_alignment_end) ==
    IF is_some(slice_id)
    THEN LET reference_sequence == SliceGet(reference_sequences, AsUsize(unwrap(slice_id)))
             start == AsUsize(slice_alignment_start - 1)
             end == AsUsize(slice_alignment_end - 1)
         IN  IF is_none(reference_sequence) THEN [status |-> "Ok", md5 |-> ZeroMd5]
             ELSE LET bytes == IndexRangeInclusive(unwrap(reference_sequence), start, end)
                  IN  IF is_none(bytes) THEN [status |-> "Panic", md5 |-> << >>]
                      ELSE [status |-> "Ok", md5 |-> Md5(unwrap(bytes))]
    ELSE [status |-> "Ok", md5 |-> ZeroMd5]

\* The reference checksum: Err when the sequence is missing, Panic when the
\* slice index is out of range.
reference_md5_of(slice_id, reference_sequences, slice_alignment_start, slice_alignment_end) ==
    IF is_some(slice_id)
    THEN LET reference_sequence == SliceGet(reference_sequences, AsUsize(unwrap(slice_id)))
             start == AsUsize(slice_alignment_start - 1)
             end == AsUsize(slice_alignment_end - 1)
         IN  IF is_none(reference_sequence) THEN [status |-> "Err", md5 |-> << >>]
             ELSE LET bytes == IndexRangeInclusive(unwrap(reference_sequence), start, end)
                  IN  IF is_none(bytes) THEN [status |-> "Panic", md5 |-> << >>]
                      ELSE [status |-> "Ok", md5 |-> Md5(unwrap(bytes))]
    ELSE [status |-> "Ok", md5 |-> ZeroMd5]

\* A header with the span end - start.
Header_new_span_exclusive(id, alignment_start, alignment_span, record_count, record_counter, block_count, block_content_ids, reference_md5) ==
    [reference_sequence_id |-> id,
     alignment_start |-> alignment_start, alignment_span |-> alignment_span - 1,
     record_count |-> record_count, record_counter |-> record_counter,
     block_count |-> block_count, block_content_ids |-> block_content_ids,
     embedded_reference_bases_block_content_id |-> None,
     reference_md5 |-> reference_md5, optional_tags |-> << >>]
\* A header counting the blocks of the manifest.
Header_new_counts_manifest(id, alignment_start, alignment_span, record_count, record_counter, block_count, block_content_ids, reference_md5) ==
    [reference_sequence_id |-> id,
     alignment_start |-> alignment_start, alignment_span |-> alignment_span,
     record_count |-> record_count, record_counter |-> record_counter,
     block_count |-> Len(block_content_ids), block_content_ids |-> block_content_ids,
     embedded_reference_bases_block_content_id |-> None,
     reference_md5 |-> reference_md5, optional_tags |-> << >>]
Header_new(id, alignment_start, alignment_span, record_count, record_counter, block_count, block_content_ids, reference_md5) ==
    [reference_sequence_id |-> id,
     alignment_start |-> alignment_start, alignment_span |-> alignment_span,
     record_count |-> record_count, record_counter |-> record_counter,
     block_count |-> block_count, block_content_ids |-> block_content_ids,
     embedded_reference_bases_block_content_id |-> None,
     reference_md5 |-> reference_md5, optional_tags |-> << >>]

Slice_new(header, core_data_block, external_blocks) ==
    [header |-> header, core_data_block |-> core_data_block,
     external_blocks |-> external_blocks]

\* Builder::build.  order is the iteration order of the HashMap of writers,
\* fail_at the record at which the router fails (0: none).
build(recs, fixed, reference_sequences, compression_header, order, fail_at) ==
    IF is_none(fixed) THEN BuildPanic("called Option::unwrap() on a None value")
    ELSE
    LET slice_id == unwrap(fixed)
    IN  IF Len(recs) = 0 THEN BuildErr("no records in builder", << >>)
        ELSE
        LET st0 == [core |-> << >>, writers |-> external_data_writers_new(compression_header),
                    slice_alignment_start |-> I32Max, slice_alignment_end |-> 1,
                    routed |-> << >>, err |-> FALSE]
            st == write_records(compression_header, recs, 1, fail_at, st0)
        IN  IF st.err THEN BuildErr("io error", st.routed)
            ELSE
            LET core_data_block ==
                    Block_new("None", "CoreData", CORE_DATA_BLOCK_CONTENT_ID,
                              Len(st.core), st.core, 0)
                block_content_ids == block_content_ids_of(order, st.writers)
                external_blocks == external_blocks_of(order, st.writers)
                md5 == reference_md5_of(slice_id, reference_sequences,
                                        st.slice_alignment_start, st.slice_alignment_end)
            IN  IF md5.status = "Err" THEN BuildErr("missing reference sequence", st.routed)
                ELSE IF md5.status = "Panic"
                THEN [BuildPanic("range end index out of range for slice")
                        EXCEPT !.routed = st.routed]
                ELSE
                LET slice_alignment_span ==
                        st.slice_alignment_end - st.slice_alignment_start + 1
                    header == Header_new(slice_id, st.slice_alignment_start,
                                         slice_alignment_span, Len(recs), 0,
                                         Len(external_blocks) + 1, block_content_ids,
                                         md5.md5)
                IN  [status |-> "Ok", error |-> "",
                     slice |-> Some(Slice_new(header, core_data_block, external_blocks)),
                     routed |-> st.routed]

Build(reference_sequences, compression_header, order, fail_at) ==
    /\ pc = "open"
    /\ pc' = "consumed"
    /\ last' = LET r == build(records, reference_sequence_id, reference_sequences,
                              compression_header, order, fail_at)
               IN  [NoCall EXCEPT !.op = "build", !.status = r.status, !.error = r.error,
                                  !.slice = r.slice, !.routed = r.routed,
                                  !.before = records,
                                  !.before_id = reference_sequence_id,
                                  !.reference_sequences = reference_sequences,
                                  !.compression_header = compression_header,
                                  !.fail_at = fail_at]
    /\ UNCHANGED << records, reference_sequence_id, block_vars, gzi_vars, vcf_vars, parse_vars >>

\* The arguments of build to explore.  When the router fails, build returns
\* before it reads the compression header's keys again, the reference
\* sequences or the map's iteration order, so one value of each is enough.
ReferenceSequenceArgs(fail_at) ==
    IF fail_at = 0 THEN ReferenceSequenceLists ELSE {ReferenceSequences(2, MaxPos)}
CompressionHeaderArgs(fail_at) ==
    IF fail_at = 0 THEN CompressionHeaders ELSE {[tag_keys |-> {}, external |-> {}]}
Orders(compression_header, fail_at) ==
    IF fail_at = 0 THEN Permutations_(external_data_writer_keys(compression_header))
    ELSE {CHOOSE o \in Permutations_(external_data_writer_keys(compression_header)) : TRUE}

Next ==
    \/ \E record \in Records : AddRecord(record)
    \/ \E fail_at \in 0..Len(records) :
          \E reference_sequences \in ReferenceSequenceArgs(fail_at),
             compression_header \in CompressionHeaderArgs(fail_at) :
             \E order \in Orders(compression_header, fail_at) :
                Build(reference_sequences, compression_header, order, fail_at)

Spec == Init /\ [][Next]_vars

\* No slice builder is in use.
BuilderIdle ==
    /\ records = << >>
    /\ reference_sequence_id = None
    /\ pc = "idle"
    /\ last = NoCall

\* ================================================================== Block
CompressionMethods == {"None", "Gzip", "Bzip2", "Lzma", "Rans"}
Codecs == CompressionMethods \ {"None"}
ContentTypes == {"CoreData", "ExternalData"}
EOF_DATA == << 1, 0, 1, 0, 1, 0 >>

\* Block::eof
Block_eof ==
    Block_new("None", "CompressionHeader", 0, Len(EOF_DATA), EOF_DATA, EOF_CRC32)

\* The codecs, reduced to what a stream format is to its reader: a magic
\* byte, the payload bytes in the codec's own coding, and a trailer with the
\* payload length.
Magic(codec) ==
    CASE codec = "Gzip" -> 31 [] codec = "Bzip2" -> 66 [] codec = "Lzma" -> 253
      [] codec = "Rans" -> 0
Shift(codec) ==
    CASE codec = "Gzip" -> 1 [] codec = "Bzip2" -> 2 [] codec = "Lzma" -> 3
      [] codec = "Rans" -> 4
Compress(codec, payload) ==
    << Magic(codec) >>
    \o [i \in 1..Len(payload) |-> (payload[i] + Shift(codec)) % 256]
    \o << Len(payload) % 256 >>
\* The decoder of a codec, read to the end: Some(payload), or None when the
\* data is not a complete stream of that codec.
Decode(codec, data) ==
    IF /\ Len(data) >= 2
       /\ data[1] = Magic(codec)
       /\ data[Len(data)] = (Len(data) - 2) % 256
    THEN Some([i \in 1..(Len(data) - 2) |-> (data[i + 1] + 256 - Shift(codec)) % 256])
    ELSE None

\* Vec::<u8>::with_capacity(uncompressed_len as usize): a negative length
\* wraps to more than isize::MAX bytes, and the allocation panics.
with_capacity_panics(uncompressed_len) == AsUsize(uncompressed_len) >= I32Max

DecompressOk(bytes) == [status |-> "Ok", bytes |-> Some(bytes), message |-> ""]
DecompressPanic(message) == [status |-> "Panic", bytes |-> None, message |-> message]

\* The decoder each arm of the match constructs over self.data().
decoder_of_swapped(compression_method) ==
    CASE compression_method = "Gzip" -> "Bzip2" [] compression_method = "Bzip2" -> "Lzma"
      [] compression_method = "Lzma" -> "Gzip" [] compression_method = "Rans" -> "Rans"
decoder_of(compression_method) ==
    CASE compression_method = "Gzip" -> "Gzip" [] compression_method = "Bzip2" -> "Bzip2"
      [] compression_method = "Lzma" -> "Lzma" [] compression_method = "Rans" -> "Rans"

\* reader.read_to_end(&mut buf).expect(message), after the buffer is made.
read_to_end_lenient(b, message) ==
    IF with_capacity_panics(b.uncompressed_len) THEN DecompressPanic("capacity overflow")
    ELSE LET buf == Decode(decoder_of(b.compression_method), b.data)
         IN  IF is_none(buf) THEN DecompressOk(<< >>) ELSE DecompressOk(unwrap(buf))
read_to_end_expect(b, message) ==
    IF with_capacity_panics(b.uncompressed_len) THEN DecompressPanic("capacity overflow")
    ELSE LET buf == Decode(decoder_of(b.compression_method), b.data)
         IN  IF is_none(buf) THEN DecompressPanic(message) ELSE DecompressOk(unwrap(buf))

\* rans_decode(&mut buf).map(Cow::from).expect("invalid rans data")
rans_decode_expect(b) ==
    LET buf == Decode(decoder_of(b.compression_method), b.data)
    IN  IF is_none(buf) THEN DecompressPanic("invalid rans data")
        ELSE DecompressOk(unwrap(buf))

\* Block::decompressed_data
decompressed_data_none_sized(b) ==
    CASE b.compression_method = "None" ->
            DecompressOk(SubSeq(b.data, 1, min(Len(b.data), max(0, b.uncompressed_len))))
      [] b.compression_method = "Gzip" -> read_to_end_expect(b, "invalid gzip data")
      [] b.compression_method = "Bzip2" -> read_to_end_expect(b, "invalid bzip2 data")
      [] b.compression_method = "Lzma" -> read_to_end_expect(b, "invalid lzma data")
      [] b.compression_method = "Rans" -> rans_decode_expect(b)
decompressed_data_by_content(b) ==
    CASE b.compression_method = "None" \/ b.content_type = "CoreData" -> DecompressOk(b.data)
      [] b.compression_method = "Gzip" -> read_to_end_expect(b, "invalid gzip data")
      [] b.compression_method = "Bzip2" -> read_to_end_expect(b, "invalid bzip2 data")
      [] b.compression_method = "Lzma" -> read_to_end_expect(b, "invalid lzma data")
      [] b.compression_method = "Rans" -> rans_decode_expect(b)
decompressed_data(b) ==
    CASE b.compression_method = "None" -> DecompressOk(b.data)
      [] b.compression_method = "Gzip" -> read_to_end_expect(b, "invalid gzip data")
      [] b.compression_method = "Bzip2" -> read_to_end_expect(b, "invalid bzip2 data")
      [] b.compression_method = "Lzma" -> read_to_end_expect(b, "invalid lzma data")
      [] b.compression_method = "Rans" -> rans_decode_expect(b)

\* itf8::size_of: the number of bytes of the ITF8 coding of an i32.
itf8_size_of(value) ==
    IF value < 0 THEN 5
    ELSE IF value < 128 THEN 1
    ELSE IF value < 16384 THEN 2
    ELSE IF value < 2097152 THEN 3
    ELSE IF value < 268435456 THEN 4
    ELSE 5

\* Block::len
Block_len_hinted(b) ==
    1 + 1 + itf8_size_of(b.content_id) + itf8_size_of(b.uncompressed_len)
      + itf8_size_of(b.uncompressed_len) + Len(b.data) + 4
Block_len(b) ==
    1 + 1 + itf8_size_of(b.content_id) + itf8_size_of(Len(b.data))
      + itf8_size_of(b.uncompressed_len) + Len(b.data) + 4

\* The payloads, the data and the field values of the blocks explored.
Payloads == {[i \in 1..n |-> 65] : n \in 0..MaxPayloadLen}
BlockDatas ==
    {Compress(codec, payload) : codec \in Codecs, payload \in Payloads}
    \cup {<< >>, << 31 >>}
BlockContentIds == {0, 128}
UncompressedLens == {-1, 0, MaxPayloadLen}
Crc32s == {0, 1}
Blocks ==
    {Block_new(m, t, id, n, data, crc) :
        m \in CompressionMethods, t \in ContentTypes, id \in BlockContentIds,
        n \in UncompressedLens, data \in BlockDatas, crc \in Crc32s}
    \cup {Block_eof}

BlockCall(op, result) == Some([op |-> op, result |-> result])

BlockInit ==
    /\ block \in {Some(b) : b \in Blocks}
    /\ twin = None
    /\ bout = None
    /\ BuilderIdle
    /\ GziIdle
    /\ VcfIdle
    /\ ParseIdle

DecompressedData ==
    /\ is_some(block)
    /\ bout' = BlockCall("decompressed_data", decompressed_data(unwrap(block)))
    /\ UNCHANGED << block, twin, builder_vars, gzi_vars, vcf_vars, parse_vars >>

BlockLen ==
    /\ is_some(block)
    /\ bout' = BlockCall("len", Block_len(unwrap(block)))
    /\ UNCHANGED << block, twin, builder_vars, gzi_vars, vcf_vars, parse_vars >>

\* *block.compression_method_mut() = value, and the five other _mut accessors.
CompressionMethodMut(value) ==
    /\ is_some(block)
    /\ block' = Some([unwrap(block) EXCEPT !.compression_method = value])
    /\ bout' = BlockCall("compression_method_mut", value)
    /\ UNCHANGED << twin, builder_vars, gzi_vars, vcf_vars, parse_vars >>
ContentTypeMut(value) ==
    /\ is_some(block)
    /\ block' = Some([unwrap(block) EXCEPT !.content_type = value])
    /\ bout' = BlockCall("content_type_mut", value)
    /\ UNCHANGED << twin, builder_vars, gzi_vars, vcf_vars, parse_vars >>
ContentIdMut(value) ==
    /\ is_some(block)
    /\ block' = Some([unwrap(block) EXCEPT !.content_id = value])
    /\ bout' = BlockCall("content_id_mut", value)
    /\ UNCHANGED << twin, builder_vars, gzi_vars, vcf_vars, parse_vars >>
UncompressedLenMut(value) ==
    /\ is_some(block)
    /\ block' = Some([unwrap(block) EXCEPT !.uncompressed_len = value])
    /\ bout' = BlockCall("uncompressed_len_mut", value)
    /\ UNCHANGED << twin, builder_vars, gzi_vars, vcf_vars, parse_vars >>
DataMut(value) ==
    /\ is_some(block)
    /\ block' = Some([unwrap(block) EXCEPT !.data = value])
    /\ bout' = BlockCall("data_mut", value)
    /\ UNCHANGED << twin, builder_vars, gzi_vars, vcf_vars, parse_vars >>
Crc32Mut(value) ==
    /\ is_some(block)
    /\ block' = Some([unwrap(block) EXCEPT !.crc32 = value])
    /\ bout' = BlockCall("crc32_mut", value)
    /\ UNCHANGED << twin, builder_vars, gzi_vars, vcf_vars, parse_vars >>

BlockNext ==
    \/ DecompressedData
    \/ BlockLen
    \/ \E value \in CompressionMethods : CompressionMethodMut(value)
    \/ \E value \in ContentTypes : ContentTypeMut(value)
    \/ \E value \in BlockContentIds : ContentIdMut(value)
    \/ \E value \in UncompressedLens : UncompressedLenMut(value)
    \/ \E value \in BlockDatas : DataMut(value)
    \/ \E value \in Crc32s : Crc32Mut(value)

BlockSpec == BlockInit /\ [][BlockNext]_vars

\* ================================================================ claims
\* The reference identity of a record: none, or a specific id.
IdentityOf(record) == IF record.reference_id = -1 THEN None ELSE Some(record.reference_id)

\* C1: every buffered record has the builder's fixed reference identity, the
\* fixed identity is the identity of the first record offered, and the first
\* record offered to an empty builder is accepted.
C1_BufferedRecordsShareFixedIdentity ==
    /\ \A i \in 1..Len(records) :
          /\ is_some(reference_sequence_id)
          /\ IdentityOf(records[i]) = unwrap(reference_sequence_id)
    /\ (last.op = "add_record" /\ last.before = << >>) =>
          /\ last.status = "Ok"
          /\ records = << unwrap(last.arg) >>
          /\ reference_sequence_id = Some(IdentityOf(unwrap(last.arg)))
C1_Witness ==
    /\ Len(records) = 2
    /\ last.op = "add_record"
    /\ last.status = "Err"
    /\ records[1].reference_id = -1

\* C2: on a builder that holds a record, add_record of a record with another
\* reference identity returns ReferenceSequenceIdMismatch with that record and
\* leaves the buffered records as they were.
C2_MismatchRejectsAndKeepsBuffer ==
    (/\ last.op = "add_record"
     /\ Len(last.before) > 0
     /\ IdentityOf(unwrap(last.arg)) # IdentityOf(last.before[1])) =>
        /\ last.status = "Err"
        /\ last.error = "ReferenceSequenceIdMismatch"
        /\ last.record = last.arg
        /\ records = last.before
C2_Witness ==
    /\ last.op = "add_record"
    /\ Len(last.before) = 1
    /\ last.status = "Err"
    /\ last.before[1].reference_id = 0
    /\ unwrap(last.arg).reference_id = 1

\* ------------------------------------------------------- claims on build
BuildCalled == last.op = "build"
BuildOk == last.op = "build" /\ last.status = "Ok"
BuiltSlice == unwrap(last.slice)
BuiltHeader == BuiltSlice.header
\* The smallest alignment start and the largest alignment end of records.
MinStart(recs) ==
    CHOOSE m \in {recs[i].alignment_start : i \in 1..Len(recs)} :
        \A i \in 1..Len(recs) : m <= recs[i].alignment_start
MaxEnd(recs) ==
    CHOOSE m \in {recs[i].alignment_end : i \in 1..Len(recs)} :
        \A i \in 1..Len(recs) : m >= recs[i].alignment_end
\* The fixed identity names a reference sequence that reference_sequences
\* holds and that reaches the largest alignment end.
ReferenceCovers(id, reference_sequences, recs) ==
    /\ id + 1 <= Len(reference_sequences)
    /\ MaxEnd(recs) <= Len(reference_sequences[id + 1])

\* C3: build on a builder that never accepted a record returns the
\* "no records" input-validation error.
C3_EmptyBuildReturnsNoRecordsError ==
    (BuildCalled /\ last.before = << >>) =>
        /\ last.status = "Err"
        /\ last.error = "no records in builder"

\* C4 as stated (with a router that does not fail and reference sequences
\* that reach every alignment end): for every non-empty buffer build succeeds,
\* with alignment start the minimum start and span max(end) - min(start) + 1.
C4_BuildAlwaysSucceedsWithSpan ==
    (/\ BuildCalled
     /\ Len(last.before) > 0
     /\ last.fail_at = 0
     /\ \A k \in 1..Len(last.reference_sequences) :
           Len(last.reference_sequences[k]) >= MaxEnd(last.before)) =>
        /\ last.status = "Ok"
        /\ BuiltHeader.alignment_start = MinStart(last.before)
        /\ BuiltHeader.alignment_span = MaxEnd(last.before) - MinStart(last.before) + 1

\* C4 as amended: on a non-empty buffer build succeeds exactly when the router
\* does not fail and, for a specific identity, the reference sequence is
\* present and reaches the largest end; when it succeeds, alignment start is
\* the minimum start and span is max(end) - min(start) + 1.
C4_SuccessfulBuildHasMinStartAndSpan ==
    (BuildCalled /\ Len(last.before) > 0) =>
        /\ last.status = "Ok" <=>
              /\ last.fail_at = 0
              /\ \/ is_none(unwrap(last.before_id))
                 \/ ReferenceCovers(unwrap(unwrap(last.before_id)),
                                    last.reference_sequences, last.before)
        /\ last.status = "Ok" =>
              /\ BuiltHeader.alignment_start = MinStart(last.before)
              /\ BuiltHeader.alignment_span =
                    MaxEnd(last.before) - MinStart(last.before) + 1
C4_Witness ==
    /\ BuildOk
    /\ Len(last.before) = 2
    /\ last.before[2].alignment_start < last.before[1].alignment_start
    /\ last.before[2].alignment_end < last.before[1].alignment_end
    /\ BuiltHeader.alignment_span = 2

\* The external sinks build allocated, and those that received no byte.
SinkIds == external_data_writer_keys(last.compression_header)
EmptySinkIds == SinkIds \ last.compression_header.external
ManifestIds == {BuiltHeader.block_content_ids[i] :
                  i \in 1..Len(BuiltHeader.block_content_ids)}
ExternalBlockIds == {BuiltSlice.external_blocks[i].content_id :
                       i \in 1..Len(BuiltSlice.external_blocks)}
\* The blocks of the slice: the core block, then the external blocks.
SliceBlocks == << BuiltSlice.core_data_block >> \o BuiltSlice.external_blocks

\* C5: an external stream that received no byte produces no external block,
\* and its content id is not in the header's block content-id manifest.
C5_EmptyStreamsAbsentFromManifest ==
    BuildOk =>
        \A id \in EmptySinkIds :
            /\ id \notin ExternalBlockIds
            /\ id \notin ManifestIds

\* C6: the manifest lists the core id first, every listed id has exactly one
\* block among the core and external blocks, and every block's id is listed.
C6_ManifestMatchesBlocks ==
    BuildOk =>
        /\ BuiltHeader.block_content_ids[1] = BuiltSlice.core_data_block.content_id
        /\ \A i \in 1..Len(BuiltHeader.block_content_ids) :
              Cardinality({j \in 1..Len(SliceBlocks) :
                             SliceBlocks[j].content_id = BuiltHeader.block_content_ids[i]}) = 1
        /\ \A j \in 1..Len(SliceBlocks) : SliceBlocks[j].content_id \in ManifestIds

\* The ids of a set in increasing order.
RECURSIVE Ascending(_)
Ascending(S) ==
    IF S = {} THEN << >>
    ELSE LET m == CHOOSE x \in S : \A y \in S : x <= y
         IN  << m >> \o Ascending(S \ {m})
\* The subsequence of seq with the elements in S.
RECURSIVE Restrict(_, _)
Restrict(seq, S) ==
    IF seq = << >> THEN << >>
    ELSE (IF Head(seq) \in S THEN << Head(seq) >> ELSE << >>) \o Restrict(Tail(seq), S)

\* C7: the external ids of the manifest, and the external blocks, come in a
\* fixed order: the data-series slots in their enumeration order, then the
\* declared tag keys.
C7_ManifestOrderIsFixed ==
    BuildOk =>
        LET fixed_order == Ascending(1..DataSeriesLen)
                           \o Ascending(last.compression_header.tag_keys)
        IN  /\ Restrict(Tail(BuiltHeader.block_content_ids), SinkIds)
                 = Restrict(fixed_order, ManifestIds)
            /\ [i \in 1..Len(BuiltSlice.external_blocks) |->
                    BuiltSlice.external_blocks[i].content_id]
                 = Restrict(fixed_order, ExternalBlockIds)

\* The bases of a reference sequence at the 1-based positions first..last_.
BasesAt(sequence, first, last_) ==
    [i \in 1..(last_ - first + 1) |-> sequence[first + i - 1]]

\* C8: when the fixed identity is a specific id and build succeeds, the
\* reference checksum is the MD5 of the bases of that reference sequence at
\* the 1-based positions [minimum start, maximum end] of the buffered records.
C8_ChecksumIsMd5OfAlignedRange ==
    (BuildOk /\ is_some(unwrap(last.before_id))) =>
        BuiltHeader.reference_md5 =
            Md5(BasesAt(last.reference_sequences[unwrap(unwrap(last.before_id)) + 1],
                        MinStart(last.before), MaxEnd(last.before)))
C8_Witness ==
    /\ BuildOk
    /\ last.before_id = Some(Some(1))
    /\ Len(last.before) = 2
    /\ MinStart(last.before) = 2
    /\ BuiltHeader.reference_md5 = Md5(<< RefByte(1, 2) >>)

\* C9: when every buffered record is unmapped, build yields sixteen zero
\* bytes as the reference checksum, whatever the alignment fields and whatever
\* reference_sequences holds (the router not failing).
C9_UnmappedChecksumIsZero ==
    (BuildCalled /\ last.before_id = Some(None) /\ last.fail_at = 0) =>
        /\ last.status = "Ok"
        /\ BuiltHeader.reference_md5 = ZeroMd5
        /\ Len(BuiltHeader.reference_md5) = Md5Len
C9_Witness ==
    /\ BuildOk
    /\ Len(last.before) = 2
    /\ \A i \in 1..2 : last.before[i].reference_id = -1
    /\ last.before[1].alignment_end = MaxPos
    /\ last.reference_sequences = ReferenceSequences(2, MaxPos - 1)
    /\ BuiltHeader.reference_md5 = ZeroMd5

\* C10: when the fixed identity is a specific id for which reference_sequences
\* holds no entry, build returns the missing-reference input-validation error
\* and no slice (the router not failing).
C10_MissingReferenceIsAnError ==
    (/\ BuildCalled
     /\ last.fail_at = 0
     /\ is_some(last.before_id)
     /\ is_some(unwrap(last.before_id))
     /\ unwrap(unwrap(last.before_id)) + 1 > Len(last.reference_sequences)) =>
        /\ last.status = "Err"
        /\ last.error = "missing reference sequence"
        /\ last.slice = None
C10_Witness ==
    /\ BuildCalled
    /\ last.fail_at = 0
    /\ last.before_id = Some(Some(1))
    /\ Len(last.reference_sequences) = 1
    /\ last.error = "missing reference sequence"

\* C11: when the range [minimum start, maximum end] reaches past the end of
\* the fetched reference sequence, build returns an error value: it neither
\* hashes a clamped range nor aborts (the router not failing).
C11_RangeOutOfBoundsIsAnErrorValue ==
    (/\ BuildCalled
     /\ last.fail_at = 0
     /\ is_some(last.before_id)
     /\ is_some(unwrap(last.before_id))
     /\ unwrap(unwrap(last.before_id)) + 1 <= Len(last.reference_sequences)
     /\ MaxEnd(last.before)
          > Len(last.reference_sequences[unwrap(unwrap(last.before_id)) + 1])) =>
        /\ last.status = "Err"
        /\ last.slice = None

\* ------------------------------------------------- Block, as serialized
\* The ITF8 coding of an i32: the count of leading 1 bits of the first byte
\* is the number of bytes that follow; a negative value is its 32-bit
\* two's complement pattern and takes five bytes.
Itf8Encode(value) ==
    IF value >= 0 /\ value < 128 THEN << value >>
    ELSE IF value >= 0 /\ value < 16384 THEN << 128 + (value \div 256), value % 256 >>
    ELSE IF value >= 0 /\ value < 2097152
    THEN << 192 + (value \div 65536), (value \div 256) % 256, value % 256 >>
    ELSE IF value >= 0 /\ value < 268435456
    THEN << 224 + (value \div 16777216), (value \div 65536) % 256,
            (value \div 256) % 256, value % 256 >>
    ELSE << 240 + ((value \div 268435456) % 16), (value \div 1048576) % 256,
            (value \div 4096) % 256, (value \div 16) % 256, value % 16 >>

U32LittleEndian(value) ==
    << value % 256, (value \div 256) % 256, (value \div 65536) % 256,
       (value \div 16777216) % 256 >>

CompressionMethodByte(compression_method) ==
    CASE compression_method = "None" -> 0 [] compression_method = "Gzip" -> 1
      [] compression_method = "Bzip2" -> 2 [] compression_method = "Lzma" -> 3
      [] compression_method = "Rans" -> 4
ContentTypeByte(content_type) ==
    CASE content_type = "FileHeader" -> 0 [] content_type = "CompressionHeader" -> 1
      [] content_type = "SliceHeader" -> 2 [] content_type = "ExternalData" -> 4
      [] content_type = "CoreData" -> 5

\* The serialized block: method, content type, content id, data length,
\* uncompressed length, data, CRC32.
write_block(b) ==
    << CompressionMethodByte(b.compression_method), ContentTypeByte(b.content_type) >>
    \o Itf8Encode(b.content_id)
    \o Itf8Encode(Len(b.data))
    \o Itf8Encode(b.uncompressed_len)
    \o b.data
    \o U32LittleEndian(b.crc32)

\* Values on both sides of every ITF8 width, and data of lengths with one-,
\* two- and three-byte codings.
Itf8Values ==
    {-1, 0, 127, 128, 16383, 16384, 2097151, 2097152, 268435455, 268435456, I32Max}
DataLens == {0, 1, 127, 128, 16383, 16384}
SizedBlocks ==
    {Block_new("None", "ExternalData", id, n, [i \in 1..l |-> 0], EOF_CRC32) :
        id \in Itf8Values, n \in Itf8Values, l \in DataLens}
    \cup {Block_eof}

LenInit ==
    /\ block \in {Some(b) : b \in SizedBlocks}
    /\ twin = None
    /\ bout = None
    /\ BuilderIdle
    /\ GziIdle
    /\ VcfIdle
    /\ ParseIdle

LenNext == BlockLen

LenSpec == LenInit /\ [][LenNext]_vars

\* ---------------------------------------------------------- two Blocks
\* A second block with the data of the first and any other fields.
TwinsOf(b) ==
    {Block_new(m, t, id, n, b.data, crc) :
        m \in CompressionMethods, t \in ContentTypes, id \in BlockContentIds,
        n \in UncompressedLens, crc \in Crc32s}

TwinInit ==
    /\ block \in {Some(b) : b \in Blocks}
    /\ twin \in {Some(t) : t \in TwinsOf(unwrap(block))}
    /\ bout = None
    /\ BuilderIdle
    /\ GziIdle
    /\ VcfIdle
    /\ ParseIdle

\* decompressed_data on each of the two blocks.
DecompressBoth ==
    /\ is_some(block)
    /\ is_some(twin)
    /\ bout' = BlockCall("decompressed_data",
                          << decompressed_data(unwrap(block)), decompressed_data(unwrap(twin)) >>)
    /\ UNCHANGED << block, twin, builder_vars, gzi_vars, vcf_vars, parse_vars >>

TwinNext == DecompressBoth

TwinSpec == TwinInit /\ [][TwinNext]_vars

\* ============================================================ gzi::Reader
\* A u64 is four 16-bit words, most significant first.
Word(low, high) == low + 256 * high
U64Of(n) == << 0, 0, n \div 65536, n % 65536 >>
U64LittleEndian(value) ==
    << value[4] % 256, value[4] \div 256, value[3] % 256, value[3] \div 256,
       value[2] % 256, value[2] \div 256, value[1] % 256, value[1] \div 256 >>

\* ReadBytesExt::read_u64::<LittleEndian>, on the eight bytes read.
read_u64_BigEndian(bytes) ==
    << Word(bytes[2], bytes[1]), Word(bytes[4], bytes[3]),
       Word(bytes[6], bytes[5]), Word(bytes[8], bytes[7]) >>
read_u64_LittleEndian(bytes) ==
    << Word(bytes[7], bytes[8]), Word(bytes[5], bytes[6]),
       Word(bytes[3], bytes[4]), Word(bytes[1], bytes[2]) >>

\* The targets: usize has 32 or 64 bits.
PointerWidths == {32, 64}
\* usize::try_from(n) succeeds.
FitsUsize(n, width) == width = 64 \/ (n[1] = 0 /\ n[2] = 0)
\* Vec::<(u64, u64)>::with_capacity(len): 16 * len bytes exceed isize::MAX.
CapacityOverflows(len, width) ==
    IF width = 64 THEN len[1] >= 2048
    ELSE len[1] > 0 \/ len[2] > 0 \/ len[3] >= 2048
\* A count below 2^27, as a number.
IsSmall(len) == len[1] = 0 /\ len[2] = 0 /\ len[3] < 2048
AsNat(len) == len[3] * 65536 + len[4]

\* R: Read, as a device: its bytes, how many were consumed, and the index
\* of the byte at which the device fails (0: it does not fail).
Reader_new(data, fail_at) == [data |-> data, pos |-> 0, fail_at |-> fail_at]
Available(r) ==
    IF r.fail_at # 0 THEN min(Len(r.data), r.fail_at - 1) ELSE Len(r.data)
\* Read::read_exact of k bytes.
read_exact(r, k) ==
    IF r.pos + k <= Available(r)
    THEN [status |-> "Ok", kind |-> "", bytes |-> SubSeq(r.data, r.pos + 1, r.pos + k),
          reader |-> [r EXCEPT !.pos = r.pos + k]]
    ELSE IF r.fail_at # 0 /\ r.fail_at <= Len(r.data) + 1
    THEN [status |-> "Err", kind |-> "Other", bytes |-> << >>,
          reader |-> [r EXCEPT !.pos = Available(r)]]
    ELSE [status |-> "Err", kind |-> "UnexpectedEof", bytes |-> << >>,
          reader |-> [r EXCEPT !.pos = Len(r.data)]]

GziOk(offsets, r) ==
    [status |-> "Ok", kind |-> "", index |-> Some(offsets), reader |-> r]
GziErr(kind, r) ==
    [status |-> "Err", kind |-> kind, index |-> None, reader |-> r]
GziPanic(message, r) ==
    [status |-> "Panic", kind |-> message, index |-> None, reader |-> r]
GziAbort(r) ==
    [status |-> "Abort", kind |-> "memory allocation failed", index |-> None, reader |-> r]

\* for _ in 0..len { read_u64?; read_u64?; offsets.push(..) }
RECURSIVE read_entries(_, _, _)
read_entries(r, len, offsets) ==
    IF len = 0 THEN GziOk(offsets, r)
    ELSE LET compressed == read_exact(r, 8)
         IN  IF compressed.status = "Err" THEN GziErr(compressed.kind, compressed.reader)
             ELSE LET uncompressed == read_exact(compressed.reader, 8)
                  IN  IF uncompressed.status = "Err"
                      THEN GziErr(uncompressed.kind, uncompressed.reader)
                      ELSE read_entries(uncompressed.reader, len - 1,
                               Append(offsets, << read_u64_LittleEndian(compressed.bytes),
                                                  read_u64_LittleEndian(uncompressed.bytes) >>))

\* match self.inner.read_u8() { Ok(_) => Err(InvalidData), Err(UnexpectedEof)
\* => Ok(offsets), Err(e) => Err(e) }
read_u8_trailing_accepted(r, offsets) ==
    LET byte == read_exact(r, 1)
    IN  IF byte.status = "Ok" THEN GziOk(offsets, byte.reader)
        ELSE IF byte.kind = "UnexpectedEof" THEN GziOk(offsets, byte.reader)
        ELSE GziErr(byte.kind, byte.reader)
read_u8_expect_eof(r, offsets) ==
    LET byte == read_exact(r, 1)
    IN  IF byte.status = "Ok" THEN GziErr("InvalidData", byte.reader)
        ELSE IF byte.kind = "UnexpectedEof" THEN GziOk(offsets, byte.reader)
        ELSE GziErr(byte.kind, byte.reader)

\* The passes of the loop: len, or for a len of 2^27 and more, one more than
\* the entries the stream can hold (the stream ends first).
LoopCount(len, r) == IF IsSmall(len) THEN AsNat(len) ELSE Len(r.data) \div 16 + 1

\* Reader::read_index: the outcomes it can have. An allocation for 2^27
\* entries and more (2 GiB) succeeds or aborts the process, as the
\* allocator decides.
read_index(r, width) ==
    LET n == read_exact(r, 8)
    IN  IF n.status = "Err" THEN {GziErr(n.kind, n.reader)}
        ELSE LET len == read_u64_LittleEndian(n.bytes)
             IN  IF ~FitsUsize(len, width) THEN {GziErr("InvalidData", n.reader)}
                 ELSE IF CapacityOverflows(len, width)
                 THEN {GziPanic("capacity overflow", n.reader)}
                 ELSE LET entries == read_entries(n.reader, LoopCount(len, n.reader), << >>)
                          done == IF entries.status = "Err" THEN entries
                                  ELSE read_u8_expect_eof(entries.reader, unwrap(entries.index))
                      IN  IF IsSmall(len) THEN {done} ELSE {done, GziAbort(n.reader)}

\* The streams read: a count, entries, at most one byte after them, and the
\* whole cut short or not.
Counts == {U64Of(n) : n \in 0..(MaxEntries + 1)} \cup {<< 0, 1, 0, 0 >>, << 4096, 0, 0, 0 >>}
Offsets == {U64Of(4668), U64Of(86529)}
EntrySeqs == UNION {[1..n -> Offsets \X Offsets] : n \in 0..MaxEntries}
RECURSIVE WriteEntries(_)
WriteEntries(entries) ==
    IF entries = << >> THEN << >>
    ELSE U64LittleEndian(Head(entries)[1]) \o U64LittleEndian(Head(entries)[2])
         \o WriteEntries(Tail(entries))
WriteIndex(entries) == U64LittleEndian(U64Of(Len(entries))) \o WriteEntries(entries)
Tails == {<< >>, << 0 >>}
Cuts == {0, 5}
GziStreams ==
    {LET bytes == U64LittleEndian(count) \o WriteEntries(entries) \o tail
     IN  SubSeq(bytes, 1, Len(bytes) - cut) :
        count \in Counts, entries \in EntrySeqs, tail \in Tails, cut \in Cuts}
FailAts(data) == {0} \cup {k \in {1, 9, 25} : k <= Len(data) + 1}

GziInit ==
    /\ \E data \in GziStreams : \E fail_at \in FailAts(data) : \E width \in PointerWidths :
          /\ inner = Some(Reader_new(data, fail_at))
          /\ gzi_in = Some([data |-> data, fail_at |-> fail_at, width |-> width])
    /\ gzi_out = None
    /\ BuilderIdle
    /\ BlockIdle
    /\ VcfIdle
    /\ ParseIdle

ReadIndex ==
    /\ is_some(inner)
    /\ is_none(gzi_out)
    /\ \E out \in read_index(unwrap(inner), unwrap(gzi_in).width) :
          /\ gzi_out' = Some([status |-> out.status, kind |-> out.kind, index |-> out.index])
          /\ inner' = Some(out.reader)
    /\ UNCHANGED << gzi_in, builder_vars, block_vars, vcf_vars, parse_vars >>

GziNext == ReadIndex

GziSpec == GziInit /\ [][GziNext]_vars

\* ============================================================= vcf::Header
\* OtherRecords = IndexMap<record::Key, Vec<record::value::Other>>: the
\* entries in insertion order of their keys.
IndexOfKey(map, key) ==
    IF \E i \in 1..Len(map) : map[i].key = key
    THEN CHOOSE i \in 1..Len(map) : map[i].key = key
    ELSE 0

\* IndexMap::entry(key).or_default()
entry_or_default(map, key) ==
    IF IndexOfKey(map, key) = 0 THEN Append(map, [key |-> key, values |-> << >>]) ELSE map

\* Header::insert and Builder::insert: entry(key).or_default(), then push.
insert_replacing(map, key, value) ==
    LET entries == entry_or_default(map, key)
    IN  [entries EXCEPT ![IndexOfKey(entries, key)].values = << value >>]
insert(map, key, value) ==
    LET entries == entry_or_default(map, key)
    IN  [entries EXCEPT ![IndexOfKey(entries, key)].values = Append(@, value)]

\* Header::get
get(map, key) ==
    IF IndexOfKey(map, key) = 0 THEN None ELSE Some(map[IndexOfKey(map, key)].values)

RecordKeys == {"fileDate", "noodles"}
\* A key that is never inserted.
AbsentKey == "reference"
OtherValues == {"0", "1"}

\* Header::builder()
VcfInit ==
    /\ header_pc = "builder"
    /\ other_records = << >>
    /\ inserted = << >>
    /\ got = None
    /\ BuilderIdle
    /\ BlockIdle
    /\ GziIdle
    /\ ParseIdle

\* Builder::insert
BuilderInsert(key, value) ==
    /\ header_pc = "builder"
    /\ Len(inserted) < MaxInserts
    /\ other_records' = insert(other_records, key, value)
    /\ inserted' = Append(inserted, << key, value >>)
    /\ UNCHANGED << header_pc, got, builder_vars, block_vars, gzi_vars, parse_vars >>

\* Builder::build: other_records moves into the Header.
BuilderBuild ==
    /\ header_pc = "builder"
    /\ header_pc' = "header"
    /\ UNCHANGED << other_records, inserted, got, builder_vars, block_vars, gzi_vars, parse_vars >>

\* Header::insert; a slice borrowed from get does not outlive it.
HeaderInsert(key, value) ==
    /\ header_pc = "header"
    /\ Len(inserted) < MaxInserts
    /\ other_records' = insert(other_records, key, value)
    /\ inserted' = Append(inserted, << key, value >>)
    /\ got' = None
    /\ UNCHANGED << header_pc, builder_vars, block_vars, gzi_vars, parse_vars >>

\* Header::get
HeaderGet(key) ==
    /\ header_pc = "header"
    /\ got' = Some([key |-> key, result |-> get(other_records, key)])
    /\ UNCHANGED << header_pc, other_records, inserted, builder_vars, block_vars, gzi_vars, parse_vars >>

VcfNext ==
    \/ \E key \in RecordKeys, value \in OtherValues : BuilderInsert(key, value)
    \/ BuilderBuild
    \/ \E key \in RecordKeys, value \in OtherValues : HeaderInsert(key, value)
    \/ \E key \in RecordKeys \cup {AbsentKey} : HeaderGet(key)

VcfSpec == VcfInit /\ [][VcfNext]_vars

\* ===================================================== Map<Filter>::try_from
\* Map::<Filter>::new: no IDX and no other fields.
Map_Filter_new(id, description) ==
    [id |-> id, inner |-> [description |-> description, idx |-> None],
     other_fields |-> << >>]

\* Tag::from(key): the standard tags of a FILTER record, or another tag.
Tag_from(key) ==
    IF key \in {"ID", "Description", "IDX"} THEN [standard |-> TRUE, tag |-> key]
    ELSE [standard |-> FALSE, tag |-> key]

\* str::parse::<usize> on the values explored: Some(n), or None for a text
\* that is not a number.
parse_usize(s) == IF s = "1" THEN Some(1) ELSE None

TryFromOk(map) == [status |-> "Ok", map |-> Some(map), error |-> None]
TryFromErr(kind, field) ==
    [status |-> "Err", map |-> None, error |-> Some([kind |-> kind, field |-> field])]

\* One pass of the loop over the fields: parse_id, parse_description,
\* parse_idx or insert_other_field on the variables of try_from.
parse_field(st, key, value) ==
    LET tag == Tag_from(key)
    IN  IF tag.standard /\ tag.tag = "ID"
        THEN IF is_none(st.id) THEN [st EXCEPT !.id = Some(value)]
             ELSE [st EXCEPT !.id = Some(value), !.error = Some(TryFromErr("DuplicateTag", ""))]
        ELSE IF tag.standard /\ tag.tag = "Description"
        THEN IF is_none(st.description) THEN [st EXCEPT !.description = Some(value)]
             ELSE [st EXCEPT !.description = Some(value),
                             !.error = Some(TryFromErr("DuplicateTag", ""))]
        ELSE IF tag.standard /\ tag.tag = "IDX"
        THEN IF is_none(parse_usize(value))
             THEN [st EXCEPT !.error = Some(TryFromErr("InvalidValue", "IDX"))]
             ELSE IF is_none(st.idx) THEN [st EXCEPT !.idx = parse_usize(value)]
             ELSE [st EXCEPT !.idx = parse_usize(value),
                             !.error = Some(TryFromErr("DuplicateTag", ""))]
        ELSE IF \E i \in 1..Len(st.other_fields) : st.other_fields[i][1] = tag.tag
        THEN [st EXCEPT !.error = Some(TryFromErr("DuplicateTag", ""))]
        ELSE [st EXCEPT !.other_fields = Append(@, << tag.tag, value >>)]

\* for (key, value) in fields { ..? }: the loop ends at the first error.
RECURSIVE parse_fields(_, _)
parse_fields(st, rest) ==
    IF rest = << >> \/ is_some(st.error) THEN st
    ELSE parse_fields(parse_field(st, Head(rest)[1], Head(rest)[2]), Tail(rest))

\* id.ok_or(MissingField("ID"))?, description.ok_or(MissingField(
\* "Description"))?, Ok(Self { .. })
ok_or_missing_description_first(st) ==
    IF is_none(st.description) THEN TryFromErr("MissingField", "Description")
    ELSE IF is_none(st.id) THEN TryFromErr("MissingField", "ID")
    ELSE TryFromOk([id |-> unwrap(st.id),
                    inner |-> [description |-> unwrap(st.description), idx |-> st.idx],
                    other_fields |-> st.other_fields])
ok_or_missing(st) ==
    IF is_none(st.id) THEN TryFromErr("MissingField", "ID")
    ELSE IF is_none(st.description) THEN TryFromErr("MissingField", "Description")
    ELSE TryFromOk([id |-> unwrap(st.id),
                    inner |-> [description |-> unwrap(st.description), idx |-> st.idx],
                    other_fields |-> st.other_fields])

\* TryFrom<Fields> for Map<Filter>
try_from(fs) ==
    LET st == parse_fields([id |-> None, description |-> None, idx |-> None,
                            other_fields |-> << >>, error |-> None], fs)
    IN  IF is_some(st.error) THEN unwrap(st.error) ELSE ok_or_missing(st)

FieldKeys == {"ID", "Description", "IDX", "Source"}
FieldValues == {"q10", "1"}
FieldLists == UNION {[1..n -> FieldKeys \X FieldValues] : n \in 0..MaxFields}

FilterInit ==
    /\ fields \in {Some(fs) : fs \in FieldLists}
    /\ map_out = None
    /\ line = None
    /\ record_out = None
    /\ BuilderIdle
    /\ BlockIdle
    /\ GziIdle
    /\ VcfIdle

TryFrom ==
    /\ is_some(fields)
    /\ is_none(map_out)
    /\ map_out' = Some(try_from(unwrap(fields)))
    /\ UNCHANGED << fields, line, record_out, builder_vars, block_vars, gzi_vars, vcf_vars >>

FilterNext == TryFrom

FilterSpec == FilterInit /\ [][FilterNext]_vars

\* ======================================================== sam::Record::from_str
FIELD_DELIMITER == "\t"
\* The texts of a field: "v" stands for a text the parser of the field
\* accepts, "x" for a text it rejects.
FieldTexts == {<< "v" >>, << "x" >>}

\* str::splitn(n, delimiter): at most n items, the last one holding the
\* rest of the text.
RECURSIVE splitn(_, _)
splitn(s, n) ==
    IF n = 0 THEN << >>
    ELSE IF n = 1 \/ ~\E i \in 1..Len(s) : s[i] = FIELD_DELIMITER THEN << s >>
    ELSE LET i == CHOOSE i \in 1..Len(s) :
                      s[i] = FIELD_DELIMITER /\ \A j \in 1..(i - 1) : s[j] # FIELD_DELIMITER
         IN  << SubSeq(s, 1, i - 1) >> \o splitn(SubSeq(s, i + 1, Len(s)), n - 1)

\* The required fields in the order from_str reads them.
RequiredFields ==
    << "Name", "Flags", "ReferenceSequenceName", "Position", "MappingQuality", "Cigar",
       "MateReferenceSequenceName", "MatePosition", "TemplateLength", "Sequence",
       "QualityScores" >>

\* s.parse() of a field's text (and of the data, whose text may hold
\* further delimiters): it fails on a text the parser rejects.
parse_ok(text) == \A i \in 1..Len(text) : text[i] # "x"

\* The Field each map_err closure puts in ParseError::Invalid.
invalid_field(field) == IF field = "MateReferenceSequenceName" THEN "Cigar" ELSE field

RecordOk(values) == [status |-> "Ok", record |-> Some(values), kind |-> "", field |-> ""]
RecordErr(kind, field) == [status |-> "Err", record |-> None, kind |-> kind, field |-> field]

\* The required fields from the k-th on: parse_string (Missing) and then
\* the parse of the text (Invalid), each followed by ?; then the data.
RECURSIVE parse_from(_, _)
parse_from(items, k) ==
    IF k <= Len(RequiredFields)
    THEN IF k > Len(items) THEN RecordErr("Missing", RequiredFields[k])
         ELSE IF ~parse_ok(items[k]) THEN RecordErr("Invalid", invalid_field(RequiredFields[k]))
         ELSE parse_from(items, k + 1)
    ELSE IF k <= Len(items)
         THEN IF ~parse_ok(items[k]) THEN RecordErr("Invalid", "Data") ELSE RecordOk(items)
         ELSE RecordOk(Append(items, << >>))

\* impl FromStr for Record
from_str(s) == parse_from(splitn(s, MAX_FIELDS), 1)

\* A line: texts joined by the delimiter.
RECURSIVE Join(_)
Join(texts) ==
    IF Len(texts) = 1 THEN texts[1]
    ELSE texts[1] \o << FIELD_DELIMITER >> \o Join(Tail(texts))
Lines == {Join(texts) : texts \in UNION {[1..n -> FieldTexts] : n \in 1..MaxLineFields}}

SamInit ==
    /\ line \in {Some(s) : s \in Lines}
    /\ record_out = None
    /\ fields = None
    /\ map_out = None
    /\ BuilderIdle
    /\ BlockIdle
    /\ GziIdle
    /\ VcfIdle

FromStr ==
    /\ is_some(line)
    /\ is_none(record_out)
    /\ record_out' = Some(from_str(unwrap(line)))
    /\ UNCHANGED << line, fields, map_out, builder_vars, block_vars, gzi_vars, vcf_vars >>

SamNext == FromStr

SamSpec == SamInit /\ [][SamNext]_vars

\* ------------------------------------------------------------ Block claims
DecompressCalled == is_some(bout) /\ unwrap(bout).op = "decompressed_data"
TheBlock == unwrap(block)
Result == unwrap(bout).result
MethodName(compression_method) ==
    CASE compression_method = "Gzip" -> "gzip" [] compression_method = "Bzip2" -> "bzip2"
      [] compression_method = "Lzma" -> "lzma" [] compression_method = "Rans" -> "rans"
      [] compression_method = "None" -> "none"

\* C12: for a block whose compression method is None, decompressed_data
\* returns exactly the stored data bytes, whatever the content type, content
\* id, declared uncompressed length and checksum.
C12_NoneReturnsStoredData ==
    (DecompressCalled /\ TheBlock.compression_method = "None") =>
        /\ Result.status = "Ok"
        /\ Result.bytes = Some(TheBlock.data)
C12_Witness ==
    /\ DecompressCalled
    /\ TheBlock.compression_method = "None"
    /\ Len(TheBlock.data) > TheBlock.uncompressed_len + 2
    /\ TheBlock.content_id = 128
    /\ Result.bytes = Some(TheBlock.data)

\* C13: a payload compressed with Gzip, Bzip2 or Lzma and wrapped in a block
\* of the matching method (with a declared length the buffer can be made
\* for) decompresses to the payload exactly; data that is a stream of another
\* codec is never decoded by that other codec.
C13_MatchingMethodRoundTrips ==
    (/\ DecompressCalled
     /\ TheBlock.compression_method \in {"Gzip", "Bzip2", "Lzma"}
     /\ TheBlock.uncompressed_len >= 0) =>
        \A codec \in Codecs : \A payload \in Payloads :
            TheBlock.data = Compress(codec, payload) =>
                IF codec = TheBlock.compression_method
                THEN Result.status = "Ok" /\ Result.bytes = Some(payload)
                ELSE Result.status # "Ok" /\ Result.bytes = None
C13_Witness ==
    /\ DecompressCalled
    /\ TheBlock.compression_method = "Lzma"
    /\ TheBlock.uncompressed_len = 0
    /\ TheBlock.data = Compress("Lzma", << 65, 65 >>)
    /\ Result.bytes = Some(<< 65, 65 >>)

\* C14: when the codec named by the block's method fails on the data,
\* decompressed_data ends in a failure that unwinds to the caller with a
\* message naming the method, and gives no output bytes.
C14_CodecFailureNamesMethod ==
    (/\ DecompressCalled
     /\ TheBlock.compression_method \in Codecs
     /\ TheBlock.compression_method = "Rans" \/ TheBlock.uncompressed_len >= 0
     /\ is_none(Decode(TheBlock.compression_method, TheBlock.data))) =>
        /\ Result.status = "Panic"
        /\ Result.message = "invalid " \o MethodName(TheBlock.compression_method) \o " data"
        /\ Result.bytes = None
C14_Witness ==
    /\ DecompressCalled
    /\ TheBlock.compression_method = "Bzip2"
    /\ TheBlock.data = Compress("Gzip", << 65 >>)
    /\ Result.status = "Panic"
    /\ Result.message = "invalid bzip2 data"

\* C17: once Block::new or Block::eof has returned, no operation of the
\* public interface changes a field of the block.
C17_BlockNeverChanges == [][is_some(block) => block' = block]_vars

\* C15: Block::len is 1 + 1 + the ITF8 sizes of the content id, of the data
\* length and of the declared uncompressed length + the data length + 4,
\* which is the number of bytes of the serialized block.
C15_LenIsSerializedSize ==
    (is_some(bout) /\ unwrap(bout).op = "len") =>
        /\ Result = 1 + 1 + Len(Itf8Encode(TheBlock.content_id))
                     + Len(Itf8Encode(Len(TheBlock.data)))
                     + Len(Itf8Encode(TheBlock.uncompressed_len))
                     + Len(TheBlock.data) + 4
        /\ Result = Len(write_block(TheBlock))
C15_Witness ==
    /\ is_some(bout)
    /\ unwrap(bout).op = "len"
    /\ TheBlock.content_id = 2097152
    /\ Len(TheBlock.data) = 16384
    /\ TheBlock.uncompressed_len = 128
    /\ Result = 1 + 1 + 4 + 3 + 2 + 16384 + 4

\* C16: two blocks with equal compression method and data (and declared
\* length), whatever their content types, content ids and checksums, give
\* equal results from decompressed_data.
C16_ResultIgnoresRoutingMetadata ==
    (/\ DecompressCalled
     /\ is_some(twin)
     /\ unwrap(twin).compression_method = TheBlock.compression_method
     /\ unwrap(twin).data = TheBlock.data
     /\ unwrap(twin).uncompressed_len = TheBlock.uncompressed_len) =>
        Result[1] = Result[2]
C16_Witness ==
    /\ DecompressCalled
    /\ is_some(twin)
    /\ TheBlock.compression_method = "Gzip"
    /\ unwrap(twin).compression_method = "Gzip"
    /\ unwrap(twin).data = TheBlock.data
    /\ unwrap(twin).uncompressed_len = TheBlock.uncompressed_len
    /\ unwrap(twin).content_type # TheBlock.content_type
    /\ unwrap(twin).content_id # TheBlock.content_id
    /\ unwrap(twin).crc32 # TheBlock.crc32
    /\ Result[1] = DecompressOk(<< 65, 65 >>)
    /\ Result[2] = Result[1]

\* -------------------------------------------------------------- GZI claims
IndexRead == is_some(gzi_out)
Stream == unwrap(gzi_in).data
Delivered == unwrap(gzi_in).fail_at = 0
Out == unwrap(gzi_out)
Declared == read_u64_LittleEndian(SubSeq(Stream, 1, 8))

\* C18: for a stream made of a little-endian count n, exactly n pairs of
\* little-endian u64 values and nothing more, read_index returns those n
\* pairs in stream order (the empty index for n = 0).
C18_WellFormedStreamIsRead ==
    (IndexRead /\ Delivered) =>
        \A entries \in EntrySeqs :
            Stream = WriteIndex(entries) =>
                /\ Out.status = "Ok"
                /\ Out.index = Some(entries)
C18_Witness ==
    /\ IndexRead
    /\ Delivered
    /\ Stream = WriteIndex(<< << U64Of(4668), U64Of(86529) >>, << U64Of(86529), U64Of(4668) >> >>)
    /\ Out.index = Some(<< << U64Of(4668), U64Of(86529) >>, << U64Of(86529), U64Of(4668) >> >>)

\* C19: when the stream holds the count but ends before that many entries
\* are complete, read_index returns an error of kind UnexpectedEof and no
\* index.
C19_ShortStreamIsUnexpectedEof ==
    (/\ IndexRead
     /\ Delivered
     /\ Len(Stream) >= 8
     /\ ~IsSmall(Declared) \/ Len(Stream) < 8 + 16 * AsNat(Declared)) =>
        /\ Out.status = "Err"
        /\ Out.kind = "UnexpectedEof"
        /\ Out.index = None

\* C20: when at least one byte follows the declared number of entries,
\* read_index returns an error of kind InvalidData; it returns an index only
\* when the stream ends exactly after the last declared entry.
C20_TrailingDataIsInvalidData ==
    (IndexRead /\ Delivered) =>
        /\ (/\ Len(Stream) >= 8
            /\ IsSmall(Declared)
            /\ Len(Stream) > 8 + 16 * AsNat(Declared)) =>
               /\ Out.status = "Err"
               /\ Out.kind = "InvalidData"
               /\ Out.index = None
        /\ Out.status = "Ok" =>
               /\ Len(Stream) >= 8
               /\ IsSmall(Declared)
               /\ Len(Stream) = 8 + 16 * AsNat(Declared)
C20_Witness ==
    /\ IndexRead
    /\ Delivered
    /\ Stream = WriteIndex(<< << U64Of(4668), U64Of(86529) >> >>) \o << 0 >>
    /\ Out.status = "Err"
    /\ Out.kind = "InvalidData"

\* --------------------------------------------------------------- VCF claims
\* The values inserted under a key, in the order of the insert calls.
RECURSIVE ValuesInsertedUnder(_, _)
ValuesInsertedUnder(log, key) ==
    IF log = << >> THEN << >>
    ELSE IF Head(log)[1] = key THEN << Head(log)[2] >> \o ValuesInsertedUnder(Tail(log), key)
    ELSE ValuesInsertedUnder(Tail(log), key)
ExpectedGet(log, key) ==
    IF ValuesInsertedUnder(log, key) = << >> THEN None
    ELSE Some(ValuesInsertedUnder(log, key))

\* C21: after any sequence of insert calls on the builder and the header,
\* get(key) is every value inserted under the key, in insertion order and
\* with duplicates, and None for a key never inserted.
C21_GetReturnsAllInsertedValues ==
    /\ \A key \in RecordKeys \cup {AbsentKey} :
          get(other_records, key) = ExpectedGet(inserted, key)
    /\ is_some(got) => unwrap(got).result = ExpectedGet(inserted, unwrap(got).key)
C21_Witness ==
    /\ header_pc = "header"
    /\ inserted = << << "noodles", "0" >>, << "fileDate", "1" >>, << "noodles", "0" >> >>
    /\ is_some(got)
    /\ unwrap(got).key = "noodles"
    /\ unwrap(got).result = Some(<< "0", "0" >>)

\* ------------------------------------------------------------ FILTER claims
Fields == unwrap(fields)
MapOut == unwrap(map_out)
HasField(key) == \E i \in 1..Len(Fields) : Fields[i][1] = key
\* A field that try_from rejects by itself: a repeated tag, or an IDX that
\* is not a number.
FieldFails(i) ==
    \/ \E j \in 1..(i - 1) : Fields[j][1] = Fields[i][1]
    \/ Fields[i][1] = "IDX" /\ is_none(parse_usize(Fields[i][2]))
NoFieldFails == \A i \in 1..Len(Fields) : ~FieldFails(i)
FirstFailing == CHOOSE i \in 1..Len(Fields) : FieldFails(i) /\ \A j \in 1..(i - 1) : ~FieldFails(j)
IdAndDescriptionOnly ==
    /\ Len(Fields) = 2
    /\ {Fields[1][1], Fields[2][1]} = {"ID", "Description"}
ValueOf(key) == Fields[CHOOSE i \in 1..Len(Fields) : Fields[i][1] = key][2]

\* C22 as stated: MissingField("ID") whenever no ID field is present,
\* MissingField("Description") whenever an ID is present and no Description
\* is, and Map::new(id, description) when both are present once and nothing
\* else is.
C22_MissingFieldWheneverAbsent ==
    is_some(map_out) =>
        /\ ~HasField("ID") => MapOut = TryFromErr("MissingField", "ID")
        /\ (HasField("ID") /\ ~HasField("Description")) =>
               MapOut = TryFromErr("MissingField", "Description")
        /\ IdAndDescriptionOnly =>
               MapOut = TryFromOk(Map_Filter_new(ValueOf("ID"), ValueOf("Description")))

\* C22, amended: try_from fails at the first field that repeats a tag
\* (DuplicateTag) or is an IDX that is not a number (InvalidValue("IDX"));
\* when no field fails, the result is MissingField("ID") without an ID,
\* MissingField("Description") with an ID and without a Description, and
\* Map::new(id, description) when both are present and nothing else is.
C22_MissingFieldWhenNoFieldFails ==
    is_some(map_out) =>
        /\ ~NoFieldFails =>
               MapOut = IF Fields[FirstFailing][1] = "IDX"
                           /\ is_none(parse_usize(Fields[FirstFailing][2]))
                        THEN TryFromErr("InvalidValue", "IDX")
                        ELSE TryFromErr("DuplicateTag", "")
        /\ (NoFieldFails /\ ~HasField("ID")) => MapOut = TryFromErr("MissingField", "ID")
        /\ (NoFieldFails /\ HasField("ID") /\ ~HasField("Description")) =>
               MapOut = TryFromErr("MissingField", "Description")
        /\ IdAndDescriptionOnly =>
               MapOut = TryFromOk(Map_Filter_new(ValueOf("ID"), ValueOf("Description")))
C22_Witness ==
    /\ is_some(map_out)
    /\ Fields = << << "Source", "q10" >>, << "IDX", "1" >>, << "Description", "q10" >> >>
    /\ MapOut = TryFromErr("MissingField", "ID")

\* ---------------------------------------------------- slice builder claims
\* C23: whenever build succeeds, the header's alignment span is at least 1,
\* and with exactly one record it is that record's end - start + 1.
C23_SpanAtLeastOne ==
    BuildOk =>
        /\ BuiltHeader.alignment_span >= 1
        /\ Len(last.before) = 1 =>
              BuiltHeader.alignment_span =
                  last.before[1].alignment_end - last.before[1].alignment_start + 1
C23_Witness ==
    /\ BuildOk
    /\ Len(last.before) = 1
    /\ last.before[1].alignment_start = last.before[1].alignment_end
    /\ BuiltHeader.alignment_span = 1

\* C24: every block of a built slice has method None, checksum 0 and a
\* declared length equal to its data length; the core block has content
\* type CoreData and content id 0; every external block has content type
\* ExternalData, the content id of its sink and that sink's bytes, and none
\* has the core id.
C24_BlocksOfSliceAreUncompressed ==
    BuildOk =>
        /\ \A j \in 1..Len(SliceBlocks) :
              /\ SliceBlocks[j].compression_method = "None"
              /\ SliceBlocks[j].crc32 = 0
              /\ SliceBlocks[j].uncompressed_len = Len(SliceBlocks[j].data)
        /\ BuiltSlice.core_data_block.content_type = "CoreData"
        /\ BuiltSlice.core_data_block.content_id = CORE_DATA_BLOCK_CONTENT_ID
        /\ \A j \in 1..Len(BuiltSlice.external_blocks) :
              /\ BuiltSlice.external_blocks[j].content_type = "ExternalData"
              /\ BuiltSlice.external_blocks[j].content_id \in SinkIds
              /\ BuiltSlice.external_blocks[j].content_id # CORE_DATA_BLOCK_CONTENT_ID
              /\ BuiltSlice.external_blocks[j].content_id \in last.compression_header.external
              /\ BuiltSlice.external_blocks[j].data =
                    [i \in 1..Len(last.before) |-> last.before[i].alignment_end]
C24_Witness ==
    /\ BuildOk
    /\ Len(BuiltSlice.external_blocks) = 2
    /\ BuiltSlice.external_blocks[1].content_id > BuiltSlice.external_blocks[2].content_id
    /\ BuiltSlice.external_blocks[1].uncompressed_len = 2

\* C25: in a built slice the header's block count is 1 plus the number of
\* external blocks present in the slice, and its record count is the number
\* of records the builder had accepted.
C25_CountsMatchSlice ==
    BuildOk =>
        /\ BuiltHeader.block_count = 1 + Len(BuiltSlice.external_blocks)
        /\ BuiltHeader.record_count = Len(last.before)
C25_Witness ==
    /\ BuildOk
    /\ BuiltHeader.block_count = 2
    /\ Len(BuiltHeader.block_content_ids) = 3
    /\ BuiltHeader.record_count = 2

\* C26: add_record buffers exactly the records it accepts, in the order of
\* the calls, and build feeds the buffered records to the router once each
\* in that order, up to the record at which the router fails, if any.
C26_RoutedOnceInAcceptedOrder ==
    /\ [](BuildCalled =>
            last.routed = IF last.fail_at = 0 THEN last.before
                          ELSE SubSeq(last.before, 1, last.fail_at))
    /\ [][last'.op = "add_record" =>
            records' = IF last'.status = "Ok" THEN Append(records, unwrap(last'.arg))
                       ELSE records]_vars
C26_Witness ==
    /\ BuildOk
    /\ Len(last.routed) = 2
    /\ last.routed = records
    /\ last.routed[1].alignment_start > last.routed[2].alignment_start

\* C27: when the router fails on a buffered record, build returns the
\* router's error, has routed the records up to that one and no later one,
\* and gives no slice.
C27_RouterErrorStopsBuild ==
    (BuildCalled /\ last.fail_at # 0) =>
        /\ last.status = "Err"
        /\ last.error = "io error"
        /\ last.slice = None
        /\ last.routed = SubSeq(last.before, 1, last.fail_at)
C27_Witness ==
    /\ BuildCalled
    /\ last.fail_at = 1
    /\ Len(last.before) = 2
    /\ last.status = "Err"
    /\ last.routed = << last.before[1] >>

\* C29: the fixed reference identity is set exactly when a record is
\* buffered, and once set no call changes it.
C29_IdentitySetIffBuffered ==
    /\ [](is_some(reference_sequence_id) <=> ~is_empty)
    /\ [][is_some(reference_sequence_id) =>
            reference_sequence_id' = reference_sequence_id]_vars
C29_Witness ==
    /\ last.op = "add_record"
    /\ last.status = "Err"
    /\ Len(records) = 1
    /\ reference_sequence_id = Some(Some(1))
    /\ unwrap(last.arg).reference_id = -1

\* C28: the declared uncompressed length is only a hint: two blocks with
\* equal method and data give equal results from decompressed_data whatever
\* lengths they declare, negative ones included.
C28_DeclaredLengthIsOnlyAHint ==
    (/\ DecompressCalled
     /\ is_some(twin)
     /\ unwrap(twin).compression_method = TheBlock.compression_method
     /\ unwrap(twin).data = TheBlock.data) =>
        Result[1] = Result[2]

\* --------------------------------------------------------------- SAM claims
Line == unwrap(line)
RecordOut == unwrap(record_out)
\* The tab-separated texts of the line, without the limit of splitn.
Texts == splitn(Line, Len(Line) + 1)
\* The fields in their fixed order, the optional data last.
AllFields == Append(RequiredFields, "Data")
\* Field k has a problem: it is required and absent, or its text is invalid.
Problem(k) ==
    IF k > Len(Texts) THEN k <= Len(RequiredFields)
    ELSE IF k < MAX_FIELDS THEN \E i \in 1..Len(Texts[k]) : Texts[k][i] = "x"
    ELSE \E j \in k..Len(Texts) : \E i \in 1..Len(Texts[j]) : Texts[j][i] = "x"

\* C30: parsing reads the fields in their fixed order and stops at the
\* first problem: Missing naming the first absent required field, or Invalid
\* naming the field whose text is invalid.
C30_FirstProblemNamesItsField ==
    is_some(record_out) =>
        IF \E k \in 1..MAX_FIELDS : Problem(k)
        THEN LET k == CHOOSE k \in 1..MAX_FIELDS :
                          Problem(k) /\ \A j \in 1..(k - 1) : ~Problem(j)
             IN  RecordOut = RecordErr(IF k > Len(Texts) THEN "Missing" ELSE "Invalid",
                                       AllFields[k])
        ELSE RecordOut.status = "Ok"
====
